---- MODULE Spec2Model ----
(***************************************************************************)
(* Steam OpenID login and JWT session tokens of the Integ backend:         *)
(*   backend/auth/steam.py   SteamProvider (login URL, callback            *)
(*                           verification, profile fetch)                  *)
(*   backend/auth/jwt.py     create_access_token / verify_access_token     *)
(*   backend/api/auth.py     steam_callback (the login flow)               *)
(*   backend/models/user.py  User (the users table)                        *)
(*                                                                         *)
(* Text values (query values, response bodies) are sequences of tokens so  *)
(* that prefix, substring and regular-expression tests are computed.       *)
(* Python None is NoneV; an Optional value is NoneV or a tagged record.    *)
(***************************************************************************)
EXTENDS Integers, Sequences, FiniteSets, TLC

\* ------------------------------------------------------------------ bounds
\* longest openid.claimed_id value, in tokens
MaxCidLen == 3
\* longest provider response body, in tokens
MaxBodyLen == 2

\* ------------------------------------------------------------- text values
NoneV == [t |-> "None"]
Str(s) == [t |-> "str", s |-> s]

\* all token sequences over alphabet A of length 0..n
RECURSIVE SeqsUpTo(_, _)
SeqsUpTo(A, n) ==
    IF n = 0 THEN {<< >>}
    ELSE LET shorter == SeqsUpTo(A, n - 1)
         IN  shorter \cup {Append(s, c) : s \in shorter, c \in A}

\* Python: sub in s
Contains(s, sub) ==
    \E i \in 1..(Len(s) - Len(sub) + 1) : SubSeq(s, i, i + Len(sub) - 1) = sub

\* Python: key.startswith("openid."); a key is <<prefix, rest>> or <<name>>
OPENID_PREFIX == "openid."
StartsWithOpenid(key) == Len(key) >= 1 /\ key[1] = OPENID_PREFIX

\* ------------------------------------------------------- steam.py constants
OPENID_NS == <<"http://specs.openid.net/auth/2.0">>
CHECK_AUTH == <<"check_auth">>
K_ns == <<"openid.", "ns">>
K_mode == <<"openid.", "mode">>
K_claimed_id == <<"openid.", "claimed_id">>
K_sig == <<"openid.", "sig">>
K_state == <<"state">>
IS_VALID_TRUE == <<"is_valid:", "true">>
STEAMID_LITERAL == "steamid/"
Digits == {"7"}
NEWLINE == "\n"

\* -------------------------------------------------- verify_callback, pieces
\* steam.py 58-60 without the startswith test: every callback entry is copied
BuildVerificationParamsAllKeys(query_params) ==
    LET fixed == (K_ns :> OPENID_NS) @@ (K_mode :> CHECK_AUTH)
    IN  [k \in DOMAIN fixed \cup DOMAIN query_params |->
            IF k \in DOMAIN query_params THEN query_params[k] ELSE fixed[k]]

\* steam.py 52-55 without the loop of 58-60: the dict literal alone
BuildVerificationParamsFixedOnly(query_params) ==
    (K_ns :> OPENID_NS) @@ (K_mode :> CHECK_AUTH)

\* steam.py 52-60: the dict literal, then every openid.* callback entry
\* assigned over it
BuildVerificationParams(query_params) ==
    LET fixed == (K_ns :> OPENID_NS) @@ (K_mode :> CHECK_AUTH)
        copied == {k \in DOMAIN query_params : StartsWithOpenid(k)}
    IN  [k \in DOMAIN fixed \cup copied |->
            IF k \in copied THEN query_params[k] ELSE fixed[k]]

\* the status alone decides, the body is not read
ProviderConfirmedStatusOnly(status_code, text) == status_code = 200

\* steam.py 70: the negation of the early-return condition
ProviderConfirmed(status_code, text) ==
    ~(status_code # 200 \/ ~Contains(text, IS_VALID_TRUE))

\* Python re: "$" matches at the end of the string and also just before a
\* newline that is the last character
DollarMatchesAt(s, j) ==
    \/ j = Len(s)
    \/ j = Len(s) - 1 /\ s[Len(s)] = NEWLINE

\* steam.py 75: re.search(r"steamid/(\d+)$", claimed_id); the set of
\* <<i, j>> with the literal at i and the digits i+1..j
SteamIdMatches(s) ==
    {m \in (1..Len(s)) \X (1..Len(s)) :
        /\ s[m[1]] = STEAMID_LITERAL
        /\ m[2] > m[1]
        /\ \A k \in (m[1] + 1)..m[2] : s[k] \in Digits
        /\ DollarMatchesAt(s, m[2])}

\* steam.py 74-80: query_params.get("openid.claimed_id", ""), the search,
\* match.group(1) or None
ExtractSteamId(query_params) ==
    LET claimed_id == IF K_claimed_id \in DOMAIN query_params
                      THEN query_params[K_claimed_id] ELSE << >>
        ms == SteamIdMatches(claimed_id)
    IN  IF ms = {} THEN NoneV
        ELSE LET m == CHOOSE x \in ms : \A y \in ms : x[1] <= y[1]
             IN  Str(SubSeq(claimed_id, m[1] + 1, m[2]))

\* ---------------------------------------------------------- get_login_url
\* a URL is a token sequence in which ":" and "/" are tokens of their own
\* steam.py 13
STEAM_OPENID_URL ==
    <<"https", ":", "/", "/", "steamcommunity.com", "/", "openid", "/", "login">>
\* steam.py 16: the default of BACKEND_URL, and another deployment's value
LOCALHOST_URL == <<"http", ":", "/", "/", "localhost", ":", "8000">>
BackendUrls == {LOCALHOST_URL, <<"https", ":", "/", "/", "integ.example">>}
\* steam.py 31-36
NS_2_0 == <<"http", ":", "/", "/", "specs.openid.net", "/", "auth", "/", "2.0">>
IDENTIFIER_SELECT == NS_2_0 \o <<"/", "identifier_select">>
CHECKID_SETUP == <<"checkid_setup">>
CALLBACK_PATH == <<"/", "auth", "/", "steam", "/", "callback">>
K_return_to == <<"openid.", "return_to">>
K_realm == <<"openid.", "realm">>
K_identity == <<"openid.", "identity">>

\* urllib.parse.quote_plus: ":" and "/" are percent-encoded, letters, digits
\* and "_.-~" stay
QuotePlus(s) ==
    [i \in DOMAIN s |-> CASE s[i] = ":" -> "%3A"
                          [] s[i] = "/" -> "%2F"
                          [] OTHER -> s[i]]
\* urllib.parse.urlencode of the pairs, in dict order
RECURSIVE Urlencode(_)
Urlencode(pairs) ==
    IF pairs = << >> THEN << >>
    ELSE LET one == QuotePlus(pairs[1][1]) \o <<"=">> \o QuotePlus(pairs[1][2])
         IN  IF Len(pairs) = 1 THEN one
             ELSE one \o <<"&">> \o Urlencode(Tail(pairs))

\* steam.py 22-38 with openid.claimed_id left out of params
get_login_url_without_claimed_id(backend_url) ==
    STEAM_OPENID_URL \o <<"?">> \o
    Urlencode(<< <<K_ns, NS_2_0>>,
                 <<K_mode, CHECKID_SETUP>>,
                 <<K_return_to, backend_url \o CALLBACK_PATH>>,
                 <<K_realm, backend_url>>,
                 <<K_identity, IDENTIFIER_SELECT>> >>)

\* steam.py 22-38
get_login_url(backend_url) ==
    LET params == << <<K_ns, NS_2_0>>,
                     <<K_mode, CHECKID_SETUP>>,
                     <<K_return_to, backend_url \o CALLBACK_PATH>>,
                     <<K_realm, backend_url>>,
                     <<K_identity, IDENTIFIER_SELECT>>,
                     <<K_claimed_id, IDENTIFIER_SELECT>> >>
    IN  STEAM_OPENID_URL \o <<"?">> \o Urlencode(params)

\* ------------------------------------------------------------ time values
\* clock ticks per second: the clock is finer than the whole seconds a token
\* carries
TicksPerSecond == 2
\* latest clock value, in ticks
MaxClock == 6
\* largest explicit expires_delta, in ticks
MaxTtl == 3

\* a datetime: wall-clock ticks and tzinfo ("utc" or "naive")
DateTime(wall, tz) == [wall |-> wall, tz |-> tz]
\* datetime.now(timezone.utc)
NowUtc(now) == DateTime(now, "utc")
\* jose: timegm(dt.utctimetuple()), whole seconds, the sub-second part dropped
Timegm(dt) == dt.wall \div TicksPerSecond
\* datetime.fromtimestamp(ts): naive local time of the process, whose zone is
\* offset seconds east of UTC
FromTimestamp(ts, offset) == DateTime((ts + offset) * TicksPerSecond, "naive")
\* dt.timestamp(), in ticks: a naive datetime is read as local time
TimestampTicks(dt, offset) ==
    IF dt.tz = "utc" THEN dt.wall ELSE dt.wall - offset * TicksPerSecond

\* ------------------------------------------------------------ JSON values
JInt(i) == [t |-> "int", i |-> i]
JsonNull == [t |-> "null"]
\* dict.get(key): None for a missing key and for a JSON null
Get(d, key) ==
    IF key \in DOMAIN d /\ d[key] # JsonNull THEN d[key] ELSE NoneV

\* ------------------------------------------------------------ jwt.py, jose
SECRET_KEY == "SECRET_KEY"
OTHER_KEY == "another-secret"
ALGORITHM == "HS256"
ACCESS_TOKEN_EXPIRE_MINUTES == 30
STEAM == <<"steam">>
GOG == <<"gog">>

\* a token is its dot-separated segments <<header, payload, signature>>
Header(alg) == [ok |-> TRUE, alg |-> alg]
Payload(claims) == [ok |-> TRUE, claims |-> claims]
\* HMAC of the signing input under key; flip = 1 is that value with a bit
\* flipped
Mac(key, header, payload) ==
    [key |-> key, header |-> header, payload |-> payload, flip |-> 0]

\* jose jwt.encode: a datetime exp becomes whole seconds, then sign
JwtEncode(claims, key, alg) ==
    LET p == Payload([c \in DOMAIN claims |->
                        IF c = "exp" THEN JInt(Timegm(claims[c])) ELSE claims[c]])
    IN  <<Header(alg), p, Mac(key, Header(alg), p)>>

\* expires_delta is ignored and the configured default always used
create_access_token_default_only(user_id, provider, expires_delta, now) ==
    JwtEncode([c \in {"user_id", "provider", "exp"} |->
                 CASE c = "user_id" -> JInt(user_id)
                   [] c = "provider" -> Str(provider)
                   [] c = "exp" ->
                        DateTime(now + 30 * 60 * TicksPerSecond, "utc")],
              "SECRET_KEY", "HS256")

\* jwt.py 38 with the delta dropped: exp = datetime.now(timezone.utc)
create_access_token_without_delta(user_id, provider, expires_delta, now) ==
    JwtEncode([c \in {"user_id", "provider", "exp"} |->
                 CASE c = "user_id" -> JInt(user_id)
                   [] c = "provider" -> Str(provider)
                   [] c = "exp" -> NowUtc(now)],
              SECRET_KEY, ALGORITHM)

\* jwt.py 35-46; expires_delta in ticks
DefaultTtl == ACCESS_TOKEN_EXPIRE_MINUTES * 60 * TicksPerSecond
create_access_token(user_id, provider, expires_delta, now) ==
    LET expire == DateTime(NowUtc(now).wall + expires_delta, "utc")
        to_encode == [c \in {"user_id", "provider", "exp"} |->
                        CASE c = "user_id" -> JInt(user_id)
                          [] c = "provider" -> Str(provider)
                          [] c = "exp" -> expire]
    IN  JwtEncode(to_encode, SECRET_KEY, ALGORITHM)

\* decode without verifying the signature
JwtDecodeUnverified(token, key, algorithms, now) ==
    IF Len(token) # 3 \/ ~token[1].ok \/ ~token[2].ok
    THEN [t |-> "raise", exc |-> "JWTError"]
    ELSE [t |-> "payload", claims |-> token[2].claims]

\* jose jwt.decode(token, key, algorithms): the payload, or the exception it
\* raises. JWSError, JWTClaimsError and ExpiredSignatureError are JWTErrors;
\* int(None) on a null exp is a TypeError jose does not catch.
Raise(exc) == [t |-> "raise", exc |-> exc]
JwtDecode(token, key, algorithms, now) ==
    IF Len(token) # 3 THEN Raise("JWTError")
    ELSE LET header == token[1]
             payload == token[2]
             signature == token[3]
         IN  IF ~header.ok \/ header.alg \notin algorithms THEN Raise("JWTError")
             ELSE IF signature # Mac(key, header, payload) THEN Raise("JWTError")
             ELSE IF ~payload.ok THEN Raise("JWTError")
             ELSE IF "exp" \notin DOMAIN payload.claims
                  THEN [t |-> "payload", claims |-> payload.claims]
             ELSE LET exp == payload.claims["exp"]
                  IN  IF exp.t = "null" THEN Raise("TypeError")
                      ELSE IF exp.t # "int" THEN Raise("JWTError")
                      ELSE IF exp.i < Timegm(NowUtc(now)) THEN Raise("JWTError")
                      ELSE [t |-> "payload", claims |-> payload.claims]

\* jwt.py 59-73. offset: the process's local UTC offset in seconds
verify_access_token(token, now, offset) ==
    LET decoded == JwtDecode(token, SECRET_KEY, {ALGORITHM}, now)
    IN  IF decoded.t = "raise"
        THEN IF decoded.exc = "JWTError" THEN NoneV ELSE decoded
        ELSE LET user_id == Get(decoded.claims, "user_id")
                 provider == Get(decoded.claims, "provider")
                 exp == Get(decoded.claims, "exp")
             IN  IF user_id = NoneV \/ provider = NoneV THEN NoneV
                 ELSE IF exp.t # "int" THEN Raise("TypeError")
                 ELSE IF user_id.t # "int" THEN Raise("ValidationError")
                 ELSE [t |-> "TokenData", user_id |-> user_id.i,
                       provider |-> provider.s,
                       exp |-> FromTimestamp(exp.i, offset)]

\* -------------------------------------------------------- get_user_info
\* a dict is a function on its keys; {} and [] are << >>
DictGet(d, key, default) == IF key \in DOMAIN d THEN d[key] ELSE default

\* an empty player list is not told apart from a player without fields
UserInfoIgnoringEmptyList(steam_id, profile_response) ==
    IF profile_response.status_code # 200 THEN NoneV
    ELSE IF ~profile_response.body.json
    THEN [t |-> "raise", exc |-> "JSONDecodeError"]
    ELSE [t |-> "dict", steam_id |-> steam_id, username |-> NoneV,
          avatar_url |-> NoneV]

\* steam.py 109-123, after the GET has returned profile_response
\* [status_code, body]; body is [json |-> FALSE] or [json |-> TRUE, data]
UserInfoFromResponse(steam_id, profile_response) ==
    IF profile_response.status_code # 200 THEN NoneV
    ELSE IF ~profile_response.body.json THEN Raise("JSONDecodeError")
    ELSE LET data == profile_response.body.data
             players == DictGet(DictGet(data, "response", << >>), "players", << >>)
         IN  IF players = << >> THEN NoneV
             ELSE LET player == players[1]
                  IN  [t |-> "dict", steam_id |-> steam_id,
                       username |-> DictGet(player, "personaname", NoneV),
                       avatar_url |-> DictGet(player, "avatarfull", NoneV)]

\* the provider's answer is not consulted
VerifiedSteamIdUnconfirmed(query_params, response) ==
    ExtractSteamId(query_params)

\* steam.py 70-80, after the POST has returned response [status_code, text]
VerifiedSteamId(query_params, response) ==
    IF ~ProviderConfirmed(response.status_code, response.text) THEN NoneV
    ELSE ExtractSteamId(query_params)

\* ------------------------------------------------------------- the inputs
Attempts == {"a1", "a2"}

\* a callback query: openid.mode, openid.ns, openid.claimed_id and state,
\* each present with a value or absent (NoneV)
Query(mode, ns, claimed_id, state) ==
    LET given == {kv \in {<<K_mode, mode>>, <<K_ns, ns>>,
                          <<K_claimed_id, claimed_id>>, <<K_state, state>>,
                          <<K_sig, Str(<<"c2ln">>)>>} : kv[2] # NoneV}
    IN  [k \in {kv[1] : kv \in given} |->
            (CHOOSE kv \in given : kv[1] = k)[2].s]

ID_RES == <<"id_res">>
EVIL_NS == <<"http://evil.example/ns">>
ALICE_CID == <<"https://steamcommunity.com/openid/id/", STEAMID_LITERAL, "7">>
BOB_CID == <<"https://steamcommunity.com/openid/id/", STEAMID_LITERAL, "7", "7">>
CidAlphabet == {STEAMID_LITERAL, "7", "x", NEWLINE}
BodyAlphabet == {"is_valid:", "true", "false"}

\* every callback within the bounds
WideQueries ==
    {Query(m, n, c, st) :
        m \in {NoneV, Str(ID_RES), Str(CHECK_AUTH)},
        n \in {NoneV, Str(OPENID_NS), Str(EVIL_NS)},
        c \in {NoneV} \cup {Str(x) : x \in SeqsUpTo(CidAlphabet, MaxCidLen)},
        st \in {NoneV, Str(<<"xyz">>)}}
WideResponses ==
    [status_code : {200, 204, 403}, text : SeqsUpTo(BodyAlphabet, MaxBodyLen)]

\* the callbacks and provider answers of the concurrent login flow
FlowQueries ==
    {Query(m, NoneV, c, NoneV) :
        m \in {NoneV, Str(ID_RES)},
        c \in {Str(ALICE_CID), Str(BOB_CID), Str(<<"x">>)}}
FlowResponses ==
    {[status_code |-> 200, text |-> <<"ns:", "is_valid:", "true">>],
     [status_code |-> 200, text |-> <<"ns:", "is_valid:", "false">>],
     [status_code |-> 403, text |-> <<"ns:", "is_valid:", "true">>]}

PlayerFull(name) ==
    ("personaname" :> Str(name)) @@ ("avatarfull" :> Str(<<"https://x/a.jpg">>))
Doc(players) == ("response" :> ("players" :> players))
ProfileResponses ==
    {[status_code |-> 200, body |-> [json |-> TRUE, data |-> Doc(<<PlayerFull(<<"Alice">>)>>)]],
     [status_code |-> 200, body |-> [json |-> TRUE, data |-> Doc(<<PlayerFull(<<"Al">>), PlayerFull(<<"Bo">>)>>)]],
     [status_code |-> 200, body |-> [json |-> TRUE, data |-> Doc(<< << >> >>)]],
     [status_code |-> 200, body |-> [json |-> TRUE, data |-> Doc(<< >>)]],
     [status_code |-> 200, body |-> [json |-> TRUE, data |-> << >>]],
     [status_code |-> 200, body |-> [json |-> FALSE]],
     [status_code |-> 500, body |-> [json |-> FALSE]]}

\* the ways a minted token is spoiled before it is verified
Spoilings == {"flip_signature", "truncate", "other_secret"}

\* ---------------------------------------------------------------- state
VARIABLES
    pc,                   \* each attempt's position in steam_callback
    query_params,         \* dict(request.query_params)
    verification_params,  \* the data POSTed to STEAM_OPENID_URL
    response,             \* the provider's answer to the POST
    steam_id,             \* verify_callback's return value
    profile_response,     \* the provider's answer to the profile GET
    user_info,            \* get_user_info's return value
    user,                 \* the User the attempt's session holds
    result,               \* what the caller receives
    calls,                \* the attempt's outbound calls, in order
    minted_at,            \* datetime.now(timezone.utc) read by the mint
    users,                \* the users table
    STEAM_API_KEY,        \* os.getenv("STEAM_API_KEY")
    clock,                \* the time, in ticks
    utc_offset,           \* the process's local UTC offset, in seconds
    token,                \* the token handed to verify_access_token
    origin,               \* how that token was made
    verdict,              \* verify_access_token's return, and when
    observed,             \* per way of spoiling a token, the verdicts seen
    BACKEND_URL,          \* os.getenv("BACKEND_URL", "http://localhost:8000")
    login_urls            \* the strings get_login_url has returned

flowVars == <<pc, query_params, verification_params, response, steam_id,
              profile_response, user_info, user, result, calls, minted_at,
              users>>
codecVars == <<token, origin, verdict, observed>>
envVars == <<STEAM_API_KEY, utc_offset, BACKEND_URL>>
vars == <<flowVars, codecVars, envVars, login_urls, clock>>

\* ------------------------------------------------------- what callers get
HTTPException(status_code, detail) ==
    [t |-> "HTTPException", status_code |-> status_code, detail |-> detail]
\* an exception no handler catches: the server answers 500 Internal Server Error
Unhandled(exc) == [t |-> "unhandled", exc |-> exc]
\* auth.py 64-65 and 70-71
VerificationFailed == HTTPException(401, "Steam verification failed")
ProfileUnavailable == HTTPException(500, "Failed to fetch Steam user info")

\* auth.py 18-23 and 94-98: LoginResponse validates username: str
LoginResponse(access_token, user_id, username) ==
    IF username.t # "str" THEN Unhandled("ValidationError")
    ELSE [t |-> "LoginResponse", access_token |-> access_token,
          token_type |-> "bearer", user_id |-> user_id, username |-> username]

\* Python truthiness of an Optional[str]
Truthy(v) == v # NoneV /\ v.s # << >>

\* ---------------------------------------------------------------- Init
FlowInit ==
    /\ pc = [a \in Attempts |-> "idle"]
    /\ query_params = [a \in Attempts |-> << >>]
    /\ verification_params = [a \in Attempts |-> << >>]
    /\ response = [a \in Attempts |-> NoneV]
    /\ steam_id = [a \in Attempts |-> NoneV]
    /\ profile_response = [a \in Attempts |-> NoneV]
    /\ user_info = [a \in Attempts |-> NoneV]
    /\ user = [a \in Attempts |-> NoneV]
    /\ result = [a \in Attempts |-> NoneV]
    /\ calls = [a \in Attempts |-> << >>]
    /\ minted_at = [a \in Attempts |-> NoneV]
    /\ users = << >>
    /\ login_urls = {}
CodecInit ==
    /\ token = << >>
    /\ origin = [kind |-> "none"]
    /\ verdict = [t |-> "pending"]
    /\ observed = [k \in Spoilings |-> {}]

Init ==
    /\ FlowInit
    /\ CodecInit
    /\ STEAM_API_KEY \in {NoneV, Str(<<"KEY">>)}
    /\ utc_offset = 0
    /\ BACKEND_URL = LOCALHOST_URL
    /\ clock \in 0..MaxClock

\* ------------------------------------------------------- the login flow
\* auth.py 59-62, steam.py 51-68 up to the await: the request arrives, the
\* verification parameters are built and POSTed
Receive(a, queries) ==
    /\ pc[a] = "idle"
    /\ \E q \in queries :
        /\ query_params' = [query_params EXCEPT ![a] = q]
        /\ verification_params' =
              [verification_params EXCEPT ![a] = BuildVerificationParams(q)]
    /\ calls' = [calls EXCEPT ![a] = Append(@, "POST")]
    /\ pc' = [pc EXCEPT ![a] = "await_post"]
    /\ UNCHANGED <<response, steam_id, profile_response, user_info, user, result, users,
                   minted_at, codecVars, envVars, login_urls, clock>>

\* steam.py 63-68: client.post raises (connection error, timeout); neither
\* verify_callback nor steam_callback catches it
PostRaises(a) ==
    /\ pc[a] = "await_post"
    /\ response' = [response EXCEPT ![a] = Raise("httpx.TransportError")]
    /\ result' = [result EXCEPT ![a] = Unhandled("httpx.TransportError")]
    /\ pc' = [pc EXCEPT ![a] = "done"]
    /\ UNCHANGED <<query_params, verification_params, steam_id, user_info,
                   profile_response, user, calls, users, minted_at, codecVars, envVars, login_urls,
                   clock>>

\* steam.py 63-71 with a second POST after a verification that failed
PostReturnsRetrying(a, responses) ==
    /\ pc[a] = "await_post"
    /\ \E r \in responses :
        LET sid == VerifiedSteamId(query_params[a], r)
        IN  /\ response' = [response EXCEPT ![a] = r]
            /\ steam_id' = [steam_id EXCEPT ![a] = sid]
            /\ IF ~Truthy(sid) /\ Len(calls[a]) < 2
               THEN /\ result' = result
                    /\ pc' = pc
                    /\ calls' = [calls EXCEPT ![a] = Append(@, "POST")]
               ELSE IF ~Truthy(sid)
               THEN /\ result' = [result EXCEPT ![a] = VerificationFailed]
                    /\ pc' = [pc EXCEPT ![a] = "done"]
                    /\ calls' = calls
               ELSE IF ~Truthy(STEAM_API_KEY)
               THEN /\ result' = [result EXCEPT ![a] = ProfileUnavailable]
                    /\ pc' = [pc EXCEPT ![a] = "done"]
                    /\ calls' = calls
               ELSE /\ result' = result
                    /\ pc' = [pc EXCEPT ![a] = "await_get"]
                    /\ calls' = [calls EXCEPT ![a] = Append(@, "GET")]
    /\ UNCHANGED <<query_params, verification_params, profile_response,
                   user_info, user, users, minted_at, codecVars, envVars,
                   login_urls, clock>>

\* steam.py 70-80, auth.py 64-68 and steam.py 93-107: the POST returns;
\* verify_callback returns; on an identifier get_user_info starts and,
\* with an API key, sends its GET
PostReturns(a, responses) ==
    /\ pc[a] = "await_post"
    /\ \E r \in responses :
        LET sid == VerifiedSteamId(query_params[a], r)
        IN  /\ response' = [response EXCEPT ![a] = r]
            /\ steam_id' = [steam_id EXCEPT ![a] = sid]
            /\ IF ~Truthy(sid)
               THEN /\ result' = [result EXCEPT ![a] = VerificationFailed]
                    /\ pc' = [pc EXCEPT ![a] = "done"]
                    /\ calls' = calls
               ELSE IF ~Truthy(STEAM_API_KEY)
               THEN /\ result' = [result EXCEPT ![a] = ProfileUnavailable]
                    /\ pc' = [pc EXCEPT ![a] = "done"]
                    /\ calls' = calls
               ELSE /\ result' = result
                    /\ pc' = [pc EXCEPT ![a] = "await_get"]
                    /\ calls' = [calls EXCEPT ![a] = Append(@, "GET")]
    /\ UNCHANGED <<query_params, verification_params, profile_response,
                   user_info, user, users, minted_at, codecVars, envVars, login_urls, clock>>

\* steam.py 102-107: client.get raises; nothing catches it
GetRaises(a) ==
    /\ pc[a] = "await_get"
    /\ profile_response' =
          [profile_response EXCEPT ![a] = Raise("httpx.TransportError")]
    /\ result' = [result EXCEPT ![a] = Unhandled("httpx.TransportError")]
    /\ pc' = [pc EXCEPT ![a] = "done"]
    /\ UNCHANGED <<query_params, verification_params, response, steam_id,
                   user_info, user, calls, users, minted_at, codecVars, envVars, login_urls, clock>>

\* steam.py 109-123, auth.py 70-71: the GET returns; get_user_info returns
GetReturns(a) ==
    /\ pc[a] = "await_get"
    /\ \E p \in ProfileResponses :
        LET info == UserInfoFromResponse(steam_id[a], p)
        IN  /\ profile_response' = [profile_response EXCEPT ![a] = p]
            /\ user_info' = [user_info EXCEPT ![a] = info]
            /\ IF info.t = "raise"
               THEN /\ result' = [result EXCEPT ![a] = Unhandled(info.exc)]
                    /\ pc' = [pc EXCEPT ![a] = "done"]
               ELSE IF info = NoneV
               THEN /\ result' = [result EXCEPT ![a] = ProfileUnavailable]
                    /\ pc' = [pc EXCEPT ![a] = "done"]
               ELSE /\ result' = result
                    /\ pc' = [pc EXCEPT ![a] = "db_query"]
    /\ UNCHANGED <<query_params, verification_params, response, steam_id,
                   user, calls, users, minted_at, codecVars, envVars, login_urls, clock>>

\* auth.py 74 without the filter: every row
RowsIgnoringSteamId(table, sid) == table

\* models/user.py 14-24: the rows with this steam_id, in id order
RowsWithSteamId(table, sid) == SelectSeq(table, LAMBDA row : row.steam_id = sid)

\* auth.py 74: db.query(User).filter(User.steam_id == steam_id).first()
DbQuery(a) ==
    /\ pc[a] = "db_query"
    /\ LET found == RowsWithSteamId(users, steam_id[a])
       IN  user' = [user EXCEPT ![a] =
                      IF found = << >> THEN NoneV
                      ELSE [t |-> "User", id |-> found[1].id]]
    /\ calls' = [calls EXCEPT ![a] = Append(@, "db.query")]
    /\ pc' = [pc EXCEPT ![a] = "db_commit"]
    /\ UNCHANGED <<query_params, verification_params, response, steam_id,
                   profile_response, user_info, result, users, minted_at, codecVars,
                   envVars, login_urls, clock>>

\* auth.py 76-84 on a table: INSERT; steam_id is unique (user.py 19), the id
\* is the next rowid
InsertUser(table, sid, username, avatar_url) ==
    IF RowsWithSteamId(table, sid) # << >> THEN Raise("IntegrityError")
    ELSE [t |-> "ok",
          table |-> Append(table, [id |-> Len(table) + 1, steam_id |-> sid,
                                   username |-> username,
                                   avatar_url |-> avatar_url])]

\* auth.py 85-89 with the two assignments left out: the row keeps its profile
UpdateUserKeepsProfile(table, id, username, avatar_url) ==
    [t |-> "ok", table |-> table]

\* auth.py 85-89 on a table: UPDATE the row the session holds
UpdateUser(table, id, username, avatar_url) ==
    [t |-> "ok",
     table |-> [i \in DOMAIN table |->
                  IF table[i].id = id
                  THEN [table[i] EXCEPT !.username = username,
                                        !.avatar_url = avatar_url]
                  ELSE table[i]]]

\* auth.py 76-98: create or update the user, commit, mint the token, answer
DbCommit(a) ==
    /\ pc[a] = "db_commit"
    /\ LET info == user_info[a]
           written == IF user[a] = NoneV
                      THEN InsertUser(users, steam_id[a], info.username,
                                      info.avatar_url)
                      ELSE UpdateUser(users, user[a].id, info.username,
                                      info.avatar_url)
       IN  IF written.t = "raise"
           THEN /\ result' = [result EXCEPT ![a] = Unhandled(written.exc)]
                /\ calls' = [calls EXCEPT ![a] = Append(@, "db.commit")]
                /\ UNCHANGED <<users, user, minted_at>>
           ELSE LET id == IF user[a] = NoneV THEN Len(written.table)
                          ELSE user[a].id
                    access_token == create_access_token(id, STEAM, DefaultTtl, clock)
                IN  /\ users' = written.table
                    /\ minted_at' = [minted_at EXCEPT ![a] = NowUtc(clock)]
                    /\ user' = [user EXCEPT ![a] = [t |-> "User", id |-> id]]
                    /\ calls' = [calls EXCEPT ![a] =
                                   @ \o <<"db.commit", "create_access_token">>]
                    /\ result' = [result EXCEPT ![a] =
                                    LoginResponse(access_token, id, info.username)]
    /\ pc' = [pc EXCEPT ![a] = "done"]
    /\ UNCHANGED <<query_params, verification_params, response, steam_id,
                   profile_response, user_info, codecVars, envVars, login_urls, clock>>

\* the clock advances
Tick ==
    /\ clock < MaxClock
    /\ clock' = clock + 1
    /\ UNCHANGED <<flowVars, codecVars, envVars, login_urls>>

Next ==
    \/ \E a \in Attempts :
        \/ Receive(a, FlowQueries)
        \/ PostRaises(a)
        \/ PostReturns(a, FlowResponses)
        \/ GetRaises(a)
        \/ GetReturns(a)
        \/ DbQuery(a)
        \/ DbCommit(a)
    \/ Tick

Spec == Init /\ [][Next]_vars
\* ------------------------------------------------------- the token codec
UserIds == {0, 7}
Providers == {STEAM, GOG}
\* payloads a holder of the secret can sign: each claim absent (NoneV),
\* null, or a value; providers are strings or missing
ForgedClaims ==
    {LET given == {kv \in {<<"user_id", u>>, <<"provider", p>>, <<"exp", e>>} :
                      kv[2] # NoneV}
     IN  [c \in {kv[1] : kv \in given} |-> (CHOOSE kv \in given : kv[1] = c)[2]] :
        u \in {NoneV, JsonNull, JInt(7), Str(<<"abc">>)},
        p \in {NoneV, JsonNull, Str(STEAM)},
        e \in {NoneV, JsonNull, Str(<<"abc">>)} \cup
              {JInt(n) : n \in 0..(MaxClock \div TicksPerSecond)}}

\* a token is made when none is under test or the last one has its verdict
Fresh == origin.kind = "none" \/ verdict.t = "done"

\* jwt.py 23-46: a caller mints a token
Mint ==
    /\ Fresh
    /\ \E u \in UserIds, p \in Providers, ttl \in 1..MaxTtl :
        /\ token' = create_access_token(u, p, ttl, clock)
        /\ origin' = [kind |-> "minted", user_id |-> u, provider |-> p,
                      ttl |-> ttl, now |-> clock, spoiled |-> "no"]
    /\ verdict' = [t |-> "pending"]
    /\ UNCHANGED <<flowVars, envVars, login_urls, clock, observed>>

\* a minted token with a bit of its signature flipped
FlipSignature ==
    /\ origin.kind = "minted" /\ origin.spoiled = "no"
    /\ token' = [token EXCEPT ![3].flip = 1]
    /\ origin' = [origin EXCEPT !.spoiled = "flip_signature"]
    /\ verdict' = [t |-> "pending"]
    /\ UNCHANGED <<flowVars, envVars, login_urls, clock, observed>>

\* a minted token cut short: fewer segments, or the whole header and
\* payload with the signature segment cut to nothing
Truncate ==
    /\ origin.kind = "minted" /\ origin.spoiled = "no"
    /\ \E n \in 0..2 : token' = SubSeq(token, 1, n)
    /\ origin' = [origin EXCEPT !.spoiled = "truncate"]
    /\ verdict' = [t |-> "pending"]
    /\ UNCHANGED <<flowVars, envVars, login_urls, clock, observed>>

\* the minted token's claims signed with a different secret
SignWithOtherSecret ==
    /\ origin.kind = "minted" /\ origin.spoiled = "no"
    /\ token' = <<token[1], token[2], Mac(OTHER_KEY, token[1], token[2])>>
    /\ origin' = [origin EXCEPT !.spoiled = "other_secret"]
    /\ verdict' = [t |-> "pending"]
    /\ UNCHANGED <<flowVars, envVars, login_urls, clock, observed>>

\* any payload signed with the server's secret and algorithm
SignClaims ==
    /\ origin.kind = "none"
    /\ \E claims \in ForgedClaims :
        token' = <<Header(ALGORITHM), Payload(claims),
                   Mac(SECRET_KEY, Header(ALGORITHM), Payload(claims))>>
    /\ origin' = [kind |-> "signed"]
    /\ verdict' = [t |-> "pending"]
    /\ UNCHANGED <<flowVars, envVars, login_urls, clock, observed>>

\* a token that is not well formed: an undecodable header, an algorithm
\* other than the configured one, a payload that is not a JSON object
Malform ==
    /\ origin.kind = "none"
    /\ \E h \in {[ok |-> FALSE, alg |-> ALGORITHM], Header("none")},
          b \in {TRUE, FALSE} :
        LET pl == [ok |-> b, claims |-> << >>]
        IN  token' = <<h, pl, Mac(SECRET_KEY, h, pl)>>
    /\ origin' = [kind |-> "malformed"]
    /\ verdict' = [t |-> "pending"]
    /\ UNCHANGED <<flowVars, envVars, login_urls, clock, observed>>

\* jwt.py 49-73: verify_access_token(token) at the current time
Verify ==
    /\ origin.kind # "none"
    /\ LET v == verify_access_token(token, clock, utc_offset)
       IN  /\ verdict' = [t |-> "done", value |-> v, at |-> clock]
           /\ observed' =
                 IF origin.kind = "minted" /\ origin.spoiled \in Spoilings
                 THEN [observed EXCEPT ![origin.spoiled] = @ \cup {v}]
                 ELSE observed
    /\ UNCHANGED <<flowVars, envVars, login_urls, clock, token, origin>>

InitToken ==
    /\ FlowInit
    /\ CodecInit
    /\ STEAM_API_KEY = Str(<<"KEY">>)
    /\ utc_offset \in {0, 3600}
    /\ BACKEND_URL = LOCALHOST_URL
    /\ clock = 0
NextToken ==
    \/ Mint
    \/ FlipSignature
    \/ Truncate
    \/ SignWithOtherSecret
    \/ SignClaims
    \/ Malform
    \/ Verify
    \/ Tick
SpecToken == InitToken /\ [][NextToken]_vars

\* verify_callback on every callback and every provider answer within the
\* bounds, one request
InitCallback ==
    /\ FlowInit
    /\ CodecInit
    /\ STEAM_API_KEY = Str(<<"KEY">>)
    /\ utc_offset = 0
    /\ BACKEND_URL = LOCALHOST_URL
    /\ clock = 0
NextCallback ==
    \/ Receive("a1", WideQueries)
    \/ PostRaises("a1")
    \/ PostReturns("a1", WideResponses)
SpecCallback == InitCallback /\ [][NextCallback]_vars

\* auth.py 26-35: steam_login answers with a redirect to get_login_url()
steam_login ==
    /\ login_urls' = login_urls \cup {get_login_url(BACKEND_URL)}
    /\ UNCHANGED <<flowVars, codecVars, envVars, clock>>

\* logins and one callback, under each BACKEND_URL
InitLogin ==
    /\ FlowInit
    /\ CodecInit
    /\ STEAM_API_KEY \in {NoneV, Str(<<"KEY">>)}
    /\ utc_offset = 0
    /\ BACKEND_URL \in BackendUrls
    /\ clock = 0
NextLogin ==
    \/ steam_login
    \/ Receive("a1", FlowQueries)
    \/ PostRaises("a1")
    \/ PostReturns("a1", FlowResponses)
    \/ GetRaises("a1")
    \/ GetReturns("a1")
    \/ DbQuery("a1")
    \/ DbCommit("a1")
    \/ Tick
SpecLogin == InitLogin /\ [][NextLogin]_vars
\* ================================================================ claims
\* the POST of attempt a has returned an HTTP response
Returned(r) == "status_code" \in DOMAIN r
SuccessStatus(status_code) == status_code \in 200..299
ClaimedIdOf(q) == IF K_claimed_id \in DOMAIN q THEN q[K_claimed_id] ELSE << >>
\* s ends in the identifier-path literal followed by one or more digits
EndsInNumericId(s) ==
    \E i \in 1..(Len(s) - 1) :
        s[i] = STEAMID_LITERAL /\ \A k \in (i + 1)..Len(s) : s[k] \in Digits

\* C1: the parameters POSTed to the provider always carry
\* openid.mode = check_auth, whatever mode the callback supplied.
C1_PostedModeIsCheckAuth ==
    \A a \in Attempts :
        pc[a] # "idle" => verification_params[a][K_mode] = <<"check_auth">>

\* C2: an identifier is produced only after the POST returned a success
\* status and a body containing is_valid:true; a returned response with
\* the marker missing or a non-success status yields no identifier.
C2_VerifiedOnlyAfterConfirmation ==
    \A a \in Attempts :
        /\ steam_id[a] # NoneV =>
              /\ Len(calls[a]) >= 1 /\ calls[a][1] = "POST"
              /\ Returned(response[a])
              /\ SuccessStatus(response[a].status_code)
              /\ Contains(response[a].text, <<"is_valid:", "true">>)
        /\ ( /\ Returned(response[a])
             /\ \/ ~SuccessStatus(response[a].status_code)
                \/ ~Contains(response[a].text, <<"is_valid:", "true">>) )
           => steam_id[a] = NoneV
C2_Witness ==
    /\ steam_id["a1"] # NoneV
    /\ response["a1"] = [status_code |-> 200, text |-> <<"is_valid:", "true">>]

\* C3: when the verification POST fails at the transport level the attempt
\* ends Rejected and the caller receives VerificationFailed.
C3_TransportFailureIsVerificationFailed ==
    \A a \in Attempts :
        response[a] = Raise("httpx.TransportError") =>
            steam_id[a] = NoneV /\ result[a] = VerificationFailed

\* C4: once the provider has answered, a callback whose claimed_id is absent
\* or does not end in the identifier path and a number is Rejected.
C4_MalformedClaimedIdRejected ==
    \A a \in Attempts :
        (Returned(response[a]) /\ ~EndsInNumericId(ClaimedIdOf(query_params[a])))
            => steam_id[a] = NoneV
\* C9: when the provider answers the verification POST with status 200 and
\* body is_valid:false, the attempt ends with VerificationFailed and makes
\* no profile call, no user-store read or write and no token.
IsValidFalse == [status_code |-> 200, text |-> <<"ns:", "is_valid:", "false">>]
C9_RejectedVerificationStopsTheFlow ==
    \A a \in Attempts :
        response[a] = IsValidFalse =>
            /\ pc[a] = "done"
            /\ result[a] = VerificationFailed
            /\ calls[a] = <<"POST">>
            /\ profile_response[a] = NoneV
            /\ user_info[a] = NoneV
            /\ user[a] = NoneV
C9_Witness ==
    /\ response["a1"] = IsValidFalse
    /\ pc["a1"] = "done"
    /\ K_claimed_id \in DOMAIN query_params["a1"]
    /\ query_params["a1"][K_claimed_id] = ALICE_CID

\* C10: when verification succeeded and the profile API returns an empty
\* player list, the attempt ends with ProfileUnavailable, after a confirmed
\* verification that extracted an identifier, and neither touches the
\* users table nor mints a token.
EmptyResultSet ==
    [status_code |-> 200,
     body |-> [json |-> TRUE, data |-> ("response" :> ("players" :> << >>))]]
C10_EmptyProfileIsProfileUnavailable ==
    \A a \in Attempts :
        profile_response[a] = EmptyResultSet =>
            /\ pc[a] = "done"
            /\ result[a] = ProfileUnavailable
            /\ calls[a] = <<"POST", "GET">>
            /\ response[a].status_code = 200
            /\ Contains(response[a].text, <<"is_valid:", "true">>)
            /\ steam_id[a] \in {Str(<<"7">>), Str(<<"7", "7">>)}
            /\ user[a] = NoneV
            /\ \A i \in DOMAIN users : users[i].steam_id # steam_id[a]
                  \/ \E b \in Attempts \ {a} : steam_id[b] = steam_id[a]
C10_Witness ==
    /\ profile_response["a1"] = EmptyResultSet
    /\ steam_id["a1"] = Str(<<"7">>)
    /\ result["a1"] = ProfileUnavailable

\* ---------------------------------------------------------- token claims
Unspoiled == origin.kind = "minted" /\ origin.spoiled = "no"
\* mint-time now + ttl, in ticks
ExpiresAt == origin.now + origin.ttl
RequiredClaimsOk(claims) ==
    /\ {"user_id", "provider", "exp"} \subseteq DOMAIN claims
    /\ claims["user_id"].t = "int"
    /\ claims["provider"].t = "str"
    /\ claims["exp"].t = "int"

\* C5: verify_access_token returns None, and never raises, for every token
\* that fails: malformed, wrongly signed, expired, or validly signed with a
\* required claim missing or of the wrong type.
C5_EveryFailureIsInvalid ==
    verdict.t = "done" =>
        /\ verdict.value.t # "raise"
        /\ ( \/ origin.kind = "malformed"
             \/ origin.kind = "minted" /\ origin.spoiled # "no"
             \/ origin.kind = "signed" /\ ~RequiredClaimsOk(token[2].claims) )
           => verdict.value = NoneV

\* C6 as stated: verifying a token at its mint time returns the minted user
\* id and provider and an expiresAt equal to mint-time now + ttl.
C6_RoundTripExact ==
    (Unspoiled /\ verdict.t = "done" /\ verdict.at = origin.now) =>
        /\ verdict.value.t = "TokenData"
        /\ verdict.value.user_id = origin.user_id
        /\ verdict.value.provider = origin.provider
        /\ TimestampTicks(verdict.value.exp, utc_offset) = ExpiresAt

\* C6 as amended: verifying a token at its mint time returns the minted
\* user id and provider and an expiresAt that is the naive local datetime
\* of mint-time now + ttl cut down to a whole second.
C6_RoundTripWholeSeconds ==
    (Unspoiled /\ verdict.t = "done" /\ verdict.at = origin.now) =>
        /\ verdict.value.t = "TokenData"
        /\ verdict.value.user_id = origin.user_id
        /\ verdict.value.provider = origin.provider
        /\ verdict.value.exp.tz = "naive"
        /\ verdict.value.exp.wall =
              (ExpiresAt - (ExpiresAt % TicksPerSecond))
                 + utc_offset * TicksPerSecond
C6_Witness ==
    /\ Unspoiled /\ verdict.t = "done" /\ verdict.at = origin.now
    /\ ExpiresAt % TicksPerSecond # 0
    /\ origin.user_id = 0
    /\ verdict.value.t = "TokenData"

\* C7: once the clock is past a minted token's expiresAt every verify of it
\* returns Invalid; a token is accepted only while expiresAt > now.
C7_AcceptedOnlyBeforeExpiry ==
    (Unspoiled /\ verdict.t = "done" /\ verdict.value # NoneV) =>
        ExpiresAt > verdict.at

\* C8: a minted token with a flipped signature, a truncated one and one
\* signed with a different secret all get the one verdict None: the
\* verdicts seen for the three are the same single value.
C8_SpoiledVerdictsIdentical ==
    /\ \A k \in Spoilings : observed[k] \subseteq {NoneV}
    /\ Cardinality(UNION {observed[k] : k \in Spoilings}) <= 1
    /\ (verdict.t = "done" /\ origin.kind = "minted" /\ origin.spoiled # "no")
          => verdict.value = NoneV
C8_Witness ==
    /\ \A k \in Spoilings : observed[k] # {}
    /\ verdict.t = "done"
    /\ origin.kind = "minted" /\ origin.spoiled = "truncate"

\* ------------------------------------------------- whole-attempt claims
FullCallOrder == <<"POST", "GET", "db.query", "db.commit", "create_access_token">>
\* the rows of the users table that carry attempt a's verified identifier
OwnRows(a) == SelectSeq(users, LAMBDA row : row.steam_id = steam_id[a])

\* C11: every finished attempt either returns a token, and then after a
\* confirmed verification, a fetched profile and a resolved identity, in
\* that order, or ends with exactly one taxonomy error and carries no
\* token and no user fields.
C11_FailsClosed ==
    \A a \in Attempts :
        pc[a] = "done" =>
            \/ /\ result[a].t = "LoginResponse"
               /\ calls[a] = FullCallOrder
               /\ ProviderConfirmed(response[a].status_code, response[a].text)
               /\ user_info[a].t = "dict"
               /\ user[a] # NoneV
            \/ /\ result[a].t = "HTTPException"
               /\ "access_token" \notin DOMAIN result[a]
               /\ "user_id" \notin DOMAIN result[a]

\* C12: the token a successful login returns decodes to the local id the
\* resolver returned for the attempt's own verified identifier, to the
\* provider "steam", and to an expiry of the mint-time now plus the default
\* lifetime, cut to whole seconds.
C12_TokenBindsAttempt ==
    \A a \in Attempts :
        result[a].t = "LoginResponse" =>
            LET d == verify_access_token(result[a].access_token, clock, utc_offset)
            IN  /\ d.t = "TokenData"
                /\ d.user_id = user[a].id
                /\ Len(OwnRows(a)) = 1
                /\ OwnRows(a)[1].id = d.user_id
                /\ d.provider = <<"steam">>
                /\ TimestampTicks(d.exp, utc_offset) =
                      ((minted_at[a].wall + DefaultTtl) \div TicksPerSecond)
                         * TicksPerSecond
\* C12 as stated: the expiry is exactly the mint-time now plus the default
\* lifetime
C12_TokenExpiryExact ==
    \A a \in Attempts :
        result[a].t = "LoginResponse" =>
            LET d == verify_access_token(result[a].access_token, clock, utc_offset)
            IN  /\ d.t = "TokenData"
                /\ d.user_id = user[a].id
                /\ d.provider = <<"steam">>
                /\ TimestampTicks(d.exp, utc_offset) = minted_at[a].wall + DefaultTtl
C12_Witness ==
    /\ result["a1"].t = "LoginResponse"
    /\ result["a1"].user_id = 2
    /\ minted_at["a1"].wall % TicksPerSecond # 0
    /\ result["a2"].t = "LoginResponse"

\* C13: the users table holds at most one row per provider identifier; all
\* successful logins for one identifier return the same local id; and a
\* successful login leaves its identifier's single row with the name and
\* avatar of the profile that login fetched, adding a row only when the
\* identifier had none.
OneRecordPerIdentifier ==
    \A i, j \in DOMAIN users : users[i].steam_id = users[j].steam_id => i = j
SameIdEveryLogin ==
    \A a, b \in Attempts :
        /\ result[a].t = "LoginResponse"
        /\ result[b].t = "LoginResponse"
        /\ steam_id[a] = steam_id[b]
        => result[a].user_id = result[b].user_id
LoginLeavesFetchedProfile ==
    \A a \in Attempts :
        /\ pc[a] = "db_commit"
        /\ pc'[a] = "done"
        /\ result'[a].t = "LoginResponse"
        => LET before == SelectSeq(users, LAMBDA row : row.steam_id = steam_id[a])
               after == SelectSeq(users', LAMBDA row : row.steam_id = steam_id[a])
           IN  /\ Len(after) = 1
               /\ after[1].id = result'[a].user_id
               /\ after[1].username = user_info[a].username
               /\ after[1].avatar_url = user_info[a].avatar_url
               /\ before # << >> =>
                     /\ Len(users') = Len(users)
                     /\ after[1].id = before[1].id
C13_ResolutionIdempotent ==
    /\ [](OneRecordPerIdentifier /\ SameIdEveryLogin)
    /\ [][LoginLeavesFetchedProfile]_vars
C13_Witness ==
    /\ result["a1"].t = "LoginResponse"
    /\ result["a2"].t = "LoginResponse"
    /\ steam_id["a1"] = steam_id["a2"]
    /\ Len(users) = 1
    /\ user_info["a1"].username # user_info["a2"].username
    /\ users[1].username = user_info["a2"].username

\* C14: once verification has produced an identifier, a missing API
\* credential, a profile request that fails in transport or times out, a
\* non-success status and an empty player list each make get_user_info
\* return None, so that each such attempt ends with ProfileUnavailable.
ProfileFetchFailed(a) ==
    \/ ~Truthy(STEAM_API_KEY)
    \/ /\ "t" \in DOMAIN profile_response[a]
       /\ profile_response[a].t = "raise"
    \/ /\ "status_code" \in DOMAIN profile_response[a]
       /\ \/ ~SuccessStatus(profile_response[a].status_code)
          \/ profile_response[a] = EmptyResultSet
C14_ProfileFailuresReturnAbsent ==
    \A a \in Attempts :
        pc[a] = "done" /\ Truthy(steam_id[a]) /\ ProfileFetchFailed(a)
            => result[a] = ProfileUnavailable

\* C15: within one attempt the verification POST is sent at most once and
\* the profile GET at most once, the POST first; an attempt whose
\* verification failed has sent exactly one POST and nothing else.
Count(call, log) == Len(SelectSeq(log, LAMBDA c : c = call))
C15_NoStageRetries ==
    \A a \in Attempts :
        /\ Count("POST", calls[a]) <= 1
        /\ Count("GET", calls[a]) <= 1
        /\ pc[a] # "idle" => calls[a][1] = "POST"
        /\ Count("GET", calls[a]) = 1 => calls[a][2] = "GET"
        /\ result[a] = VerificationFailed => calls[a] = <<"POST">>
C15_Witness ==
    /\ result["a1"] = VerificationFailed
    /\ response["a1"] = [status_code |-> 403, text |-> <<"ns:", "is_valid:", "true">>]
    /\ calls["a1"] = <<"POST">>
    /\ result["a2"] = ProfileUnavailable
    /\ profile_response["a2"] = [status_code |-> 500, body |-> [json |-> FALSE]]
    /\ calls["a2"] = <<"POST", "GET">>

\* C16: while the other attempt is for a different provider user (or has
\* not arrived), an attempt's outcome is the one its own callback, its own
\* provider answers and its own row determine, the lookup it made still
\* describes the table when it commits, its row holds its own profile, and
\* at every point before it ends the attempt has a step it can take.
AttemptStep(a) ==
    \/ Receive(a, FlowQueries)
    \/ PostRaises(a)
    \/ PostReturns(a, FlowResponses)
    \/ GetRaises(a)
    \/ GetReturns(a)
    \/ DbQuery(a)
    \/ DbCommit(a)
OtherIsDifferentUser(a) ==
    \A b \in Attempts \ {a} :
        \/ pc[b] = "idle"
        \/ ExtractSteamId(query_params[b]) # ExtractSteamId(query_params[a])
\* the result of attempt a computed from its own inputs alone
AloneResult(a) ==
    IF "status_code" \notin DOMAIN response[a] THEN Unhandled(response[a].exc)
    ELSE LET sid == VerifiedSteamId(query_params[a], response[a])
         IN  IF ~Truthy(sid) THEN VerificationFailed
             ELSE IF ~Truthy(STEAM_API_KEY) THEN ProfileUnavailable
             ELSE IF "status_code" \notin DOMAIN profile_response[a]
             THEN Unhandled(profile_response[a].exc)
             ELSE LET info == UserInfoFromResponse(sid, profile_response[a])
                  IN  IF info = NoneV THEN ProfileUnavailable
                      ELSE IF info.t = "raise" THEN Unhandled(info.exc)
                      ELSE LET id == OwnRows(a)[1].id
                           IN  LoginResponse(
                                  create_access_token(id, STEAM, DefaultTtl,
                                                      minted_at[a].wall),
                                  id, info.username)
RECURSIVE SplitOn(_, _)
SplitOn(s, sep) ==
    IF \A i \in DOMAIN s : s[i] # sep THEN <<s>>
    ELSE LET i == CHOOSE x \in DOMAIN s :
                      s[x] = sep /\ \A y \in 1..(x - 1) : s[y] # sep
         IN  <<SubSeq(s, 1, i - 1)>> \o SplitOn(SubSeq(s, i + 1, Len(s)), sep)
\* urllib.parse.unquote on the escapes that occur
Unquote(s) ==
    [i \in DOMAIN s |-> CASE s[i] = "%3A" -> ":"
                          [] s[i] = "%2F" -> "/"
                          [] OTHER -> s[i]]
\* the decoded values the url's query carries under key
FieldValues(url, key) ==
    LET fields == SplitOn(SplitOn(url, "?")[2], "&")
    IN  {Unquote(SplitOn(fields[i], "=")[2]) :
            i \in {j \in DOMAIN fields : SplitOn(fields[j], "=")[1] = key}}
ProviderLoginEndpoint ==
    <<"https", ":", "/", "/", "steamcommunity.com", "/", "openid", "/", "login">>
Ns20 == <<"http", ":", "/", "/", "specs.openid.net", "/", "auth", "/", "2.0">>
C17_LoginUrlCarriesFields ==
    \A u \in login_urls :
        /\ Len(SplitOn(u, "?")) = 2
        /\ SplitOn(u, "?")[1] = ProviderLoginEndpoint
        /\ FieldValues(u, <<"openid.", "ns">>) = {Ns20}
        /\ FieldValues(u, <<"openid.", "mode">>) = {<<"checkid_setup">>}
        /\ FieldValues(u, <<"openid.", "return_to">>) =
              {BACKEND_URL \o <<"/", "auth", "/", "steam", "/", "callback">>}
        /\ FieldValues(u, <<"openid.", "realm">>) = {BACKEND_URL}
        /\ FieldValues(u, <<"openid.", "identity">>) =
              {Ns20 \o <<"/", "identifier_select">>}
        /\ FieldValues(u, <<"openid.", "claimed_id">>) =
              {Ns20 \o <<"/", "identifier_select">>}
C17_LoginUrlDeterministic ==
    /\ [](C17_LoginUrlCarriesFields /\ Cardinality(login_urls) <= 1)
    /\ [][login_urls' # login_urls =>
             UNCHANGED <<flowVars, codecVars, envVars, clock>>]_vars
C17_Witness ==
    /\ login_urls # {}
    /\ BACKEND_URL # LOCALHOST_URL
    /\ pc["a1"] = "done"
    /\ clock > 0

\* C18: the parameter set POSTed has as its keys the two fixed fields
\* openid.ns and openid.mode and the callback keys that start with
\* "openid.", every such callback key carrying its callback value; no
\* callback key outside that namespace is sent.
InOpenidNamespace(k) == Len(k) >= 1 /\ k[1] = "openid."
C18_PostedExactlyOpenidParams ==
    \A a \in Attempts :
        pc[a] # "idle" =>
            LET q == query_params[a]
                posted == verification_params[a]
            IN  /\ DOMAIN posted =
                      {<<"openid.", "ns">>, <<"openid.", "mode">>}
                         \cup {k \in DOMAIN q : InOpenidNamespace(k)}
                /\ \A k \in DOMAIN q :
                      InOpenidNamespace(k) => posted[k] = q[k]
                /\ \A k \in DOMAIN q :
                      ~InOpenidNamespace(k) => k \notin DOMAIN posted
                /\ \A k \in {<<"openid.", "ns">>, <<"openid.", "mode">>} \ DOMAIN q :
                      posted[k] = (IF k = <<"openid.", "ns">>
                                   THEN <<"http://specs.openid.net/auth/2.0">>
                                   ELSE <<"check_auth">>)
C18_Witness ==
    /\ pc["a1"] = "done"
    /\ K_state \in DOMAIN query_params["a1"]
    /\ K_claimed_id \in DOMAIN query_params["a1"]
    /\ K_mode \notin DOMAIN query_params["a1"]
    /\ K_ns \in DOMAIN query_params["a1"]

\* C19: whenever verify_callback returns an identifier, the parameter set
\* it POSTed carries openid.claimed_id with the callback's value, the
\* provider confirmed that POST, and the identifier is the run of digits
\* after the identifier-path literal at the end of that posted value.
C19_IdFromPostedClaimedId ==
    \A a \in Attempts :
        steam_id[a] # NoneV =>
            /\ K_claimed_id \in DOMAIN verification_params[a]
            /\ response[a].status_code = 200
            /\ Contains(response[a].text, <<"is_valid:", "true">>)
            /\ LET posted == verification_params[a][K_claimed_id]
                   id == steam_id[a].s
               IN  /\ Len(id) >= 1
                   /\ \E i \in DOMAIN posted :
                        /\ SubSeq(posted, i, i + Len(id)) = <<"steamid/">> \o id
                        /\ \/ i + Len(id) = Len(posted)
                           \/ /\ i + Len(id) = Len(posted) - 1
                              /\ posted[Len(posted)] = "\n"
C19_Witness ==
    /\ steam_id["a1"] = Str(<<"7">>)
    /\ K_state \in DOMAIN query_params["a1"]
    /\ verification_params["a1"][K_claimed_id] = <<"x", "steamid/", "7">>

\* C20: at most one users row carries any one identifier, and no attempt
\* that reached the commit ends with the insert's failure unhandled; a
\* token such an attempt returns is for the id of its identifier's single row.
C20_SameUserRaceHandled ==
    /\ \A i, j \in DOMAIN users :
          users[i].steam_id = users[j].steam_id => i = j
    /\ \A a \in Attempts :
          pc[a] = "done" /\ Count("db.commit", calls[a]) = 1 =>
              /\ result[a] # Unhandled("IntegrityError")
              /\ result[a].t = "LoginResponse" =>
                    /\ Len(OwnRows(a)) = 1
                    /\ result[a].user_id = OwnRows(a)[1].id

====
